---- MODULE Spec2Model ----
(***************************************************************************)
(* Model of the wallet-health maintainer of send-openputer-kit:            *)
(*   - BalanceMonitorTool._call (tools/BalanceMonitorTool.ts), the         *)
(*     balance-check / top-up / confirmation protocol;                     *)
(*   - the second BalanceMonitorTool class shipped by the repository       *)
(*     (unnamed/part_000), which tops up without solvency check and        *)
(*     without confirmation;                                               *)
(*   - runAutonomousMode (index.ts), the while(true) driver.               *)
(* Amounts are integers in lamports.  Strings that the code inspects       *)
(* (inputs, error messages) are sequences of one-character strings.        *)
(***************************************************************************)
EXTENDS Integers, Sequences, FiniteSets, TLC

VARIABLES
  impl,          \* which BalanceMonitorTool class the tool object is built from
  mode,          \* result of chooseMode: "auto" or "chat"
  ledger,        \* account -> balance in lamports (the chain's state)
  tx,            \* the last transfer submitted by the agent wallet
  funded,        \* number of operator replenishments of the agent wallet so far
  callPc,        \* position inside _call
  input,         \* _call's argument
  parseAttempts, \* how many times new PublicKey(input) ran in this invocation
  targetWallet,  \* const targetWallet
  balance,       \* const balance (lamports)
  sourceBalance, \* const sourceBalance (lamports)
  ops,           \* ledger operations completed by the current invocation, in order
  result,        \* the value _call returned (a status string, by template and fields)
  loopPc,        \* position inside runAutonomousMode
  waitMs,        \* delay of the setTimeout the loop is waiting on
  cycleFault,    \* TRUE when the current wait was entered through the catch block
  prevCycle      \* how the loop's previous iteration ended: "none", "normal", "fault"

vars == <<impl, mode, ledger, tx, funded, callPc, input, parseAttempts, targetWallet, balance,
          sourceBalance, ops, result, loopPc, waitMs, cycleFault, prevCycle>>

callVars == <<callPc, input, parseAttempts, targetWallet, balance, sourceBalance, ops, result>>
loopVars == <<loopPc, waitMs, cycleFault, prevCycle>>

----------------------------------------------------------------------------
(* Strings *)

\* "check"
StrCheck ==
  <<"c", "h", "e", "c", "k">>
\* "transfer 0.001"
StrTransferCmd ==
  <<"t", "r", "a", "n", "s", "f", "e", "r", " ", "0", ".", "0", "0", "1">>
\* "transfer 0.1", the call the README documents
StrTransferDoc ==
  <<"t", "r", "a", "n", "s", "f", "e", "r", " ", "0", ".", "1">>
\* "So11111111111111111111111111111111111111112"
StrWsolMint ==
  <<"S", "o", "1", "1", "1", "1", "1", "1", "1", "1", "1", "1", "1", "1", "1", "1", "1", "1", "1", "1", "1", "1", "1", "1", "1", "1", "1", "1", "1", "1", "1", "1", "1", "1", "1", "1", "1", "1", "1", "1", "1", "1", "2">>
\* "abc"
StrTooShort ==
  <<"a", "b", "c">>
\* "Invalid public key"
PatInvalidPublicKey ==
  <<"I", "n", "v", "a", "l", "i", "d", " ", "p", "u", "b", "l", "i", "c", " ", "k", "e", "y">>
\* "insufficient lamports"
PatInsufficientLamports ==
  <<"i", "n", "s", "u", "f", "f", "i", "c", "i", "e", "n", "t", " ", "l", "a", "m", "p", "o", "r", "t", "s">>
\* "0x1"
Pat0x1 ==
  <<"0", "x", "1">>
\* "attempt to debit"
PatAttemptToDebit ==
  <<"a", "t", "t", "e", "m", "p", "t", " ", "t", "o", " ", "d", "e", "b", "i", "t">>
\* "Invalid public key input"
MsgInvalidPublicKeyInput ==
  <<"I", "n", "v", "a", "l", "i", "d", " ", "p", "u", "b", "l", "i", "c", " ", "k", "e", "y", " ", "i", "n", "p", "u", "t">>
\* "Non-base58 character"
MsgNonBase58 ==
  <<"N", "o", "n", "-", "b", "a", "s", "e", "5", "8", " ", "c", "h", "a", "r", "a", "c", "t", "e", "r">>
\* "Transfer: insufficient lamports"
MsgInsufficientLamports ==
  <<"T", "r", "a", "n", "s", "f", "e", "r", ":", " ", "i", "n", "s", "u", "f", "f", "i", "c", "i", "e", "n", "t", " ", "l", "a", "m", "p", "o", "r", "t", "s">>
\* "custom program error: 0x1"
MsgCustomError0x1 ==
  <<"c", "u", "s", "t", "o", "m", " ", "p", "r", "o", "g", "r", "a", "m", " ", "e", "r", "r", "o", "r", ":", " ", "0", "x", "1">>
\* "Attempt to debit an account"
MsgAttemptToDebit ==
  <<"A", "t", "t", "e", "m", "p", "t", " ", "t", "o", " ", "d", "e", "b", "i", "t", " ", "a", "n", " ", "a", "c", "c", "o", "u", "n", "t">>
\* "Blockhash not found"
MsgBlockhashNotFound ==
  <<"B", "l", "o", "c", "k", "h", "a", "s", "h", " ", "n", "o", "t", " ", "f", "o", "u", "n", "d">>
\* "fetch failed"
MsgFetchFailed ==
  <<"f", "e", "t", "c", "h", " ", "f", "a", "i", "l", "e", "d">>
\* "Transaction was not confirmed"
MsgNotConfirmed ==
  <<"T", "r", "a", "n", "s", "a", "c", "t", "i", "o", "n", " ", "w", "a", "s", " ", "n", "o", "t", " ", "c", "o", "n", "f", "i", "r", "m", "e", "d">>
\* "socket hang up"
MsgStringThrown ==
  <<"s", "o", "c", "k", "e", "t", " ", "h", "a", "n", "g", " ", "u", "p">>

Base58Alphabet ==
  {"1", "2", "3", "4", "5", "6", "7", "8", "9", "A", "B", "C", "D", "E", "F", "G", "H", "J", "K", "L", "M", "N", "P", "Q", "R", "S", "T", "U", "V", "W", "X", "Y", "Z", "a", "b", "c", "d", "e", "f", "g", "h", "i", "j", "k", "m", "n", "o", "p", "q", "r", "s", "t", "u", "v", "w", "x", "y", "z"}

\* String.prototype.includes
Includes(s, p) ==
  \E i \in 0..(Len(s) - Len(p)) : SubSeq(s, i + 1, i + Len(p)) = p

LowerChar(c) ==
  CASE c = "A" -> "a" [] c = "B" -> "b" [] c = "C" -> "c" [] c = "D" -> "d"
    [] c = "E" -> "e" [] c = "F" -> "f" [] c = "G" -> "g" [] c = "H" -> "h"
    [] c = "I" -> "i" [] c = "J" -> "j" [] c = "K" -> "k" [] c = "L" -> "l"
    [] c = "M" -> "m" [] c = "N" -> "n" [] c = "O" -> "o" [] c = "P" -> "p"
    [] c = "Q" -> "q" [] c = "R" -> "r" [] c = "S" -> "s" [] c = "T" -> "t"
    [] c = "U" -> "u" [] c = "V" -> "v" [] c = "W" -> "w" [] c = "X" -> "x"
    [] c = "Y" -> "y" [] c = "Z" -> "z" [] OTHER -> c

\* String.prototype.toLowerCase
ToLowerCase(s) == [i \in 1..Len(s) |-> LowerChar(s[i])]

----------------------------------------------------------------------------
(* Amounts *)

LAMPORTS_PER_SOL == 1000000000

\* Constructor defaults, in lamports: 0.005 SOL / 0.005 SOL in
\* tools/BalanceMonitorTool.ts, 0.1 SOL / 0.2 SOL in unnamed/part_000.
MinBalanceTools == 5000000
TopUpAmountTools == 5000000
MinBalanceUnnamed == 100000000
TopUpAmountUnnamed == 200000000

\* The 0.000005 SOL the code adds for fees, and the fee the chain charges.
FeeLamports == 5000

\* A topUpAmountSol passed to the tools/ constructor instead of its default:
\* 0.002 SOL, less than half of the default minBalanceSol.
TopUpAmountArgs == 2 * (MinBalanceTools \div 5)

\* impl is "tools" (the tools/ class built with its defaults, as index.ts
\* builds it), "toolsArgs" (the tools/ class built with topUpAmountSol given)
\* or "unnamed" (the class of unnamed/part_000 built with its defaults).
MinBalanceOf(i) == IF i = "unnamed" THEN MinBalanceUnnamed ELSE MinBalanceTools
TopUpAmountOf(i) ==
  IF i = "tools" THEN TopUpAmountTools
  ELSE IF i = "unnamed" THEN TopUpAmountUnnamed
  ELSE TopUpAmountArgs

\* this.minBalanceSol, this.topUpAmountSol
minBalance == MinBalanceOf(impl)
topUpAmount == TopUpAmountOf(impl)

\* requiredAmount = this.topUpAmountSol + 0.000005
requiredAmount == topUpAmount + FeeLamports

\* (lamports / LAMPORTS_PER_SOL).toFixed(4), in units of 0.0001 SOL
ToFixed4(lamports) ==
  (lamports + LAMPORTS_PER_SOL \div 20000) \div (LAMPORTS_PER_SOL \div 10000)

\* (lamports / LAMPORTS_PER_SOL).toFixed(6), in units of 0.000001 SOL
ToFixed6(lamports) ==
  (lamports + LAMPORTS_PER_SOL \div 2000000) \div (LAMPORTS_PER_SOL \div 1000000)

\* Loop delays of runAutonomousMode, in milliseconds.
IntervalSeconds == 10
RecoveryMs == 5000
CadenceMs == IntervalSeconds * 1000

----------------------------------------------------------------------------
(* Thrown values, statuses *)

NoThrow == [isError |-> FALSE, message |-> <<>>]
ErrorOf(m) == [isError |-> TRUE, message |-> m]
\* a thrown value that is not an Error instance; message is String(value)
NonError(m) == [isError |-> FALSE, message |-> m]

\* What the RPC client may throw from each call.
GetBalanceFaults == {ErrorOf(MsgFetchFailed), NonError(MsgStringThrown)}
TransferFaults ==
  {ErrorOf(MsgInsufficientLamports), ErrorOf(MsgCustomError0x1),
   ErrorOf(MsgAttemptToDebit), ErrorOf(MsgBlockhashNotFound),
   NonError(MsgStringThrown)}
\* "timeout": the client gave up waiting; "error": the request itself failed
ConfirmFaults ==
  {[why |-> "timeout", thrown |-> ErrorOf(MsgNotConfirmed)],
   [why |-> "error", thrown |-> ErrorOf(MsgFetchFailed)],
   [why |-> "error", thrown |-> NonError(MsgStringThrown)]}

Accounts == {"default", "other", "agent"}

\* The status string _call returns: which template literal, and the values
\* interpolated into it (-1, "none", <<>> where the template has none).
NoResult ==
  [template |-> "none", address |-> "none", balance |-> -1,
   sourceBalance |-> -1, newBalance |-> -1, required |-> -1, error |-> <<>>]

\* Outcome kind of each status string.
Kind(r) ==
  CASE r.template \in {"Balance", "NoTopUpNeeded"} -> "Healthy"
    [] r.template \in {"TransferSuccessful", "ToppedUpUnnamed"} -> "ToppedUp"
    [] r.template \in {"NeedSol", "NotEnoughSol", "FundsNotArrived"} -> "InsufficientFunds"
    [] r.template \in {"TransferFailedMsg", "TransferFailedBare", "FailedToTopUp"} -> "TransferFailed"
    [] r.template = "InvalidWallet" -> "InvalidInput"
    [] r.template = "ErrorChecking" -> "ErrorCheckingBalance"
    [] OTHER -> "none"

\* new PublicKey(input): base58-decode, then require 32 bytes.  The strings
\* that decode to 32 bytes are those of AddressBook.
AddressBook == {StrWsolMint}
NewPublicKey(s) ==
  IF \E i \in 1..Len(s) : s[i] \notin Base58Alphabet
  THEN [ok |-> FALSE, key |-> "none", thrown |-> ErrorOf(MsgNonBase58)]
  ELSE IF s \in AddressBook
       THEN [ok |-> TRUE, key |-> "other", thrown |-> NoThrow]
       ELSE [ok |-> FALSE, key |-> "none", thrown |-> ErrorOf(MsgInvalidPublicKeyInput)]

UsesAddressUnlessCheck(in) == in # StrCheck

\* input && input !== 'check'
UsesAddress(in) == in # <<>> /\ in # StrCheck

\* input && input !== 'check' ? new PublicKey(input) : this.defaultWallet
ResolveTarget(in) ==
  IF UsesAddress(in)
  THEN NewPublicKey(in)
  ELSE [ok |-> TRUE, key |-> "default", thrown |-> NoThrow]

\* The outer catch block of _call.
OuterCatch(e) ==
  IF e.isError /\ Includes(e.message, PatInvalidPublicKey)
  THEN [NoResult EXCEPT !.template = "InvalidWallet"]
  ELSE [NoResult EXCEPT !.template = "ErrorChecking", !.error = e.message]

\* balanceMessage after line 42 (shownSource = -1) or after line 58.
BalanceMessage(shownSource) ==
  [NoResult EXCEPT !.balance = ToFixed4(balance), !.sourceBalance = shownSource]

\* The inner catch block of _call (tools/BalanceMonitorTool.ts).
InnerCatch(e, shownSource) ==
  IF e.isError
  THEN LET errorMsg == ToLowerCase(e.message) IN
       IF Includes(errorMsg, PatInsufficientLamports) \/ Includes(errorMsg, Pat0x1)
       THEN [BalanceMessage(shownSource) EXCEPT
               !.template = "NotEnoughSol", !.required = requiredAmount]
       ELSE IF Includes(errorMsg, PatAttemptToDebit)
            THEN [BalanceMessage(shownSource) EXCEPT !.template = "FundsNotArrived"]
            ELSE [BalanceMessage(shownSource) EXCEPT
                    !.template = "TransferFailedMsg", !.error = e.message]
  ELSE [BalanceMessage(shownSource) EXCEPT !.template = "TransferFailedBare"]

BelowMinimumByTopUp(lamports) == lamports < minBalance - topUpAmount

BelowMinimumInclusive(lamports) == lamports <= minBalance

\* if (balanceInSol < this.minBalanceSol)
BelowMinimum(lamports) == lamports < minBalance

\* if (sourceBalanceInSol < requiredAmount)
SourceInsufficient(lamports) == lamports < requiredAmount

\* One completed ledger operation: outcome is "ok", "error" or "timeout".
Op(name, account, outcome, value, thrown) ==
  [op |-> name, account |-> account, outcome |-> outcome, value |-> value,
   thrown |-> thrown]

Return(r) ==
  /\ callPc' = "returned"
  /\ result' = r

----------------------------------------------------------------------------
(* Bounds and the environment's amounts *)

\* How many times the operator replenishes the agent wallet.
MaxFunds == 1

\* What the monitored account pays for compute in one payment.
SpendLamports == topUpAmount \div 2 + LAMPORTS_PER_SOL \div 10000

Inputs == {<<>>, StrCheck, StrWsolMint, StrTooShort, StrTransferCmd, StrTransferDoc}

NoTx == [status |-> "none", to |-> "none", amount |-> 0]

InitLedgers(i) ==
  LET min == MinBalanceOf(i)
      req == TopUpAmountOf(i) + FeeLamports
  IN  {[a \in Accounts |->
          IF a = "default" THEN d ELSE IF a = "agent" THEN g ELSE min \div 2] :
        d \in {min - 1, min, min \div 2 + 40000},
        g \in {0, req - 1, req, 2 * req}}

\* The state after the tool is constructed and the mode is chosen.
InitOf(impls, modes) ==
  /\ impl \in impls
  /\ mode \in modes
  /\ ledger \in InitLedgers(impl)
  /\ tx = NoTx
  /\ funded = 0
  /\ callPc = "idle"
  /\ input = <<>>
  /\ parseAttempts = 0
  /\ targetWallet = "none"
  /\ balance = -1
  /\ sourceBalance = -1
  /\ ops = <<>>
  /\ result = NoResult
  /\ loopPc = IF mode = "auto" THEN "cycle" ELSE "off"
  /\ waitMs = 0
  /\ cycleFault = FALSE
  /\ prevCycle = "none"

Init == InitOf({"tools", "unnamed"}, {"auto", "chat"})

----------------------------------------------------------------------------
(* BalanceMonitorTool._call *)

\* Entry of _call up to the first await: resolve the target, or fall into
\* the outer catch when new PublicKey(input) throws.
Begin(in) ==
  LET r == ResolveTarget(in) IN
  /\ input' = in
  /\ parseAttempts' = IF UsesAddress(in) THEN 1 ELSE 0
  /\ ops' = <<>>
  /\ balance' = -1
  /\ sourceBalance' = -1
  /\ IF r.ok
     THEN /\ targetWallet' = r.key
          /\ callPc' = "getBalance"
          /\ result' = NoResult
     ELSE /\ targetWallet' = "none"
          /\ Return(OuterCatch(r.thrown))

\* await this.connection.getBalance(targetWallet) resolves
\* (tools/BalanceMonitorTool.ts).
GetBalanceOk ==
  /\ impl # "unnamed"
  /\ callPc = "getBalance"
  /\ balance' = ledger[targetWallet]
  /\ ops' = Append(ops, Op("getBalance", targetWallet, "ok", ledger[targetWallet], NoThrow))
  /\ IF BelowMinimum(ledger[targetWallet])
     THEN callPc' = "getSourceBalance" /\ UNCHANGED result
     ELSE Return([NoResult EXCEPT !.template = "Balance",
                                  !.balance = ToFixed4(ledger[targetWallet])])
  /\ UNCHANGED <<impl, mode, ledger, tx, funded, input, parseAttempts, targetWallet, sourceBalance, loopVars>>

\* the first getBalance rejects: outer catch (both classes)
GetBalanceThrow ==
  /\ callPc = "getBalance"
  /\ \E e \in GetBalanceFaults :
       /\ ops' = Append(ops, Op("getBalance", targetWallet, "error", -1, e))
       /\ Return(OuterCatch(e))
  /\ UNCHANGED <<impl, mode, ledger, tx, funded, input, parseAttempts, targetWallet, balance, sourceBalance, loopVars>>

\* await this.connection.getBalance(sourceWallet) resolves
GetSourceBalanceOk ==
  /\ callPc = "getSourceBalance"
  /\ sourceBalance' = ledger["agent"]
  /\ ops' = Append(ops, Op("getBalance", "agent", "ok", ledger["agent"], NoThrow))
  /\ IF SourceInsufficient(ledger["agent"])
     THEN Return([BalanceMessage(-1) EXCEPT
                    !.template = "NeedSol", !.address = "agent",
                    !.required = ToFixed6(requiredAmount)])
     ELSE callPc' = "transfer" /\ UNCHANGED result
  /\ UNCHANGED <<impl, mode, ledger, tx, funded, input, parseAttempts, targetWallet, balance, loopVars>>

GetSourceBalanceThrow ==
  /\ callPc = "getSourceBalance"
  /\ \E e \in GetBalanceFaults :
       /\ ops' = Append(ops, Op("getBalance", "agent", "error", -1, e))
       /\ Return(InnerCatch(e, -1))
  /\ UNCHANGED <<impl, mode, ledger, tx, funded, input, parseAttempts, targetWallet, balance, sourceBalance, loopVars>>

\* await this.solanaAgent.transfer(targetWallet, this.topUpAmountSol) resolves
\* with a signature: the chain accepted the transaction for processing.
TransferOk ==
  /\ impl # "unnamed"
  /\ callPc = "transfer"
  /\ ledger["agent"] >= topUpAmount + FeeLamports
  /\ tx' = [status |-> "pending", to |-> targetWallet, amount |-> topUpAmount]
  /\ ops' = Append(ops, Op("transfer", targetWallet, "ok", topUpAmount, NoThrow))
  /\ callPc' = "confirmTransaction"
  /\ UNCHANGED <<impl, mode, ledger, funded, input, parseAttempts, targetWallet, balance, sourceBalance, result, loopVars>>

TransferThrowRetry ==
  /\ impl # "unnamed"
  /\ callPc = "transfer"
  /\ \E e \in TransferFaults :
       /\ ops' = Append(ops, Op("transfer", targetWallet, "error", topUpAmount, e))
       /\ IF Len(ops) < 3
          THEN callPc' = "transfer" /\ UNCHANGED result
          ELSE Return(InnerCatch(e, ToFixed4(sourceBalance)))
  /\ UNCHANGED <<impl, mode, ledger, tx, funded, input, parseAttempts, targetWallet, balance, sourceBalance, loopVars>>

TransferThrow ==
  /\ impl # "unnamed"
  /\ callPc = "transfer"
  /\ \E e \in TransferFaults :
       /\ ops' = Append(ops, Op("transfer", targetWallet, "error", topUpAmount, e))
       /\ Return(InnerCatch(e, ToFixed4(sourceBalance)))
  /\ UNCHANGED <<impl, mode, ledger, tx, funded, input, parseAttempts, targetWallet, balance, sourceBalance, loopVars>>

\* await this.connection.confirmTransaction(signature, 'confirmed') resolves
ConfirmOk ==
  /\ callPc = "confirmTransaction"
  /\ tx.status = "landed"
  /\ ops' = Append(ops, Op("confirmTransaction", tx.to, "ok", 0, NoThrow))
  /\ callPc' = "requery"
  /\ UNCHANGED <<impl, mode, ledger, tx, funded, input, parseAttempts, targetWallet, balance, sourceBalance, result, loopVars>>

ConfirmThrowContinue ==
  /\ callPc = "confirmTransaction"
  /\ \E f \in ConfirmFaults :
       ops' = Append(ops, Op("confirmTransaction", tx.to, f.why, 0, f.thrown))
  /\ callPc' = "requery"
  /\ UNCHANGED <<impl, mode, ledger, tx, funded, input, parseAttempts, targetWallet, balance, sourceBalance, result, loopVars>>

\* confirmTransaction rejects: the request failed, or the client's wait expired
ConfirmThrow ==
  /\ callPc = "confirmTransaction"
  /\ \E f \in ConfirmFaults :
       /\ ops' = Append(ops, Op("confirmTransaction", tx.to, f.why, 0, f.thrown))
       /\ Return(InnerCatch(f.thrown, ToFixed4(sourceBalance)))
  /\ UNCHANGED <<impl, mode, ledger, tx, funded, input, parseAttempts, targetWallet, balance, sourceBalance, loopVars>>

ReportedNewBalanceSum(newBalance) == ToFixed4(balance + topUpAmount)

\* Value interpolated as "New balance" (line 73).
ReportedNewBalance(newBalance) == ToFixed4(newBalance)

\* const newBalance = await this.connection.getBalance(targetWallet) resolves
RequeryOk ==
  /\ callPc = "requery"
  /\ ops' = Append(ops, Op("getBalance", targetWallet, "ok", ledger[targetWallet], NoThrow))
  /\ Return([BalanceMessage(ToFixed4(sourceBalance)) EXCEPT
               !.template = "TransferSuccessful",
               !.newBalance = ReportedNewBalance(ledger[targetWallet])])
  /\ UNCHANGED <<impl, mode, ledger, tx, funded, input, parseAttempts, targetWallet, balance, sourceBalance, loopVars>>

RequeryThrow ==
  /\ callPc = "requery"
  /\ \E e \in GetBalanceFaults :
       /\ ops' = Append(ops, Op("getBalance", targetWallet, "error", -1, e))
       /\ Return(InnerCatch(e, ToFixed4(sourceBalance)))
  /\ UNCHANGED <<impl, mode, ledger, tx, funded, input, parseAttempts, targetWallet, balance, sourceBalance, loopVars>>

----------------------------------------------------------------------------
(* The BalanceMonitorTool class of unnamed/part_000 *)

UnnamedGetBalanceOk ==
  /\ impl = "unnamed"
  /\ callPc = "getBalance"
  /\ balance' = ledger[targetWallet]
  /\ ops' = Append(ops, Op("getBalance", targetWallet, "ok", ledger[targetWallet], NoThrow))
  /\ IF BelowMinimum(ledger[targetWallet])
     THEN callPc' = "transfer" /\ UNCHANGED result
     ELSE Return([NoResult EXCEPT !.template = "NoTopUpNeeded",
                                  !.address = targetWallet,
                                  !.balance = ToFixed4(ledger[targetWallet])])
  /\ UNCHANGED <<impl, mode, ledger, tx, funded, input, parseAttempts, targetWallet, sourceBalance, loopVars>>

\* await this.solanaAgent.transfer(...) resolves; success is reported at once
UnnamedTransferOk ==
  /\ impl = "unnamed"
  /\ callPc = "transfer"
  /\ ledger["agent"] >= topUpAmount + FeeLamports
  /\ tx' = [status |-> "pending", to |-> targetWallet, amount |-> topUpAmount]
  /\ ops' = Append(ops, Op("transfer", targetWallet, "ok", topUpAmount, NoThrow))
  /\ Return([NoResult EXCEPT !.template = "ToppedUpUnnamed",
                             !.address = targetWallet,
                             !.balance = ToFixed4(balance)])
  /\ UNCHANGED <<impl, mode, ledger, funded, input, parseAttempts, targetWallet, balance, sourceBalance, loopVars>>

UnnamedTransferThrow ==
  /\ impl = "unnamed"
  /\ callPc = "transfer"
  /\ \E e \in TransferFaults :
       /\ ops' = Append(ops, Op("transfer", targetWallet, "error", topUpAmount, e))
       /\ Return([NoResult EXCEPT !.template = "FailedToTopUp",
                                  !.address = targetWallet,
                                  !.error = e.message])
  /\ UNCHANGED <<impl, mode, ledger, tx, funded, input, parseAttempts, targetWallet, balance, sourceBalance, loopVars>>

----------------------------------------------------------------------------
(* The chain and the people around it *)

\* The submitted transfer is processed: amount and fee leave the agent wallet.
Land ==
  /\ tx.status = "pending"
  /\ ledger["agent"] >= tx.amount + FeeLamports
  /\ ledger' = [ledger EXCEPT !["agent"] = @ - tx.amount - FeeLamports,
                              ![tx.to] = @ + tx.amount]
  /\ tx' = [tx EXCEPT !.status = "landed"]
  /\ UNCHANGED <<impl, mode, funded, callVars, loopVars>>

\* The submitted transfer expires unprocessed.
Drop ==
  /\ tx.status = "pending"
  /\ tx' = [tx EXCEPT !.status = "dropped"]
  /\ UNCHANGED <<impl, mode, ledger, funded, callVars, loopVars>>

\* The monitored default account pays for compute.
Spend ==
  /\ ledger["default"] >= SpendLamports
  /\ ledger' = [ledger EXCEPT !["default"] = @ - SpendLamports]
  /\ UNCHANGED <<impl, mode, tx, funded, callVars, loopVars>>

\* The operator sends the requested amount to the agent wallet.
Fund ==
  /\ funded < MaxFunds
  /\ funded' = funded + 1
  /\ ledger' = [ledger EXCEPT !["agent"] = @ + requiredAmount]
  /\ UNCHANGED <<impl, mode, tx, callVars, loopVars>>

----------------------------------------------------------------------------
(* runAutonomousMode *)

CadenceDelayShort == RecoveryMs

\* setTimeout(resolve, interval * 1000) at the end of the try block
CadenceDelay == CadenceMs

CatchBlockRethrow ==
  /\ loopPc' = "exited"
  /\ waitMs' = 0
  /\ cycleFault' = TRUE

\* The catch block of the loop: log, wait 5000 ms, continue.
CatchBlock ==
  /\ loopPc' = "wait"
  /\ waitMs' = RecoveryMs
  /\ cycleFault' = TRUE

\* Top of the while(true) body: find the tool and call _call("check").
LoopCycle ==
  /\ mode = "auto"
  /\ loopPc = "cycle"
  /\ callPc \in {"idle", "returned"}
  /\ Begin(StrCheck)
  /\ loopPc' = "call"
  /\ UNCHANGED <<impl, mode, ledger, tx, funded, waitMs, cycleFault, prevCycle>>

LoopStatusReportNoAwait ==
  /\ loopPc = "call"
  /\ loopPc' = "stream"
  /\ UNCHANGED <<impl, mode, ledger, tx, funded, callVars, waitMs, cycleFault, prevCycle>>

\* _call has returned: print the status report and start agent.stream.
LoopStatusReport ==
  /\ loopPc = "call"
  /\ callPc = "returned"
  /\ loopPc' = "stream"
  /\ UNCHANGED <<impl, mode, ledger, tx, funded, callVars, waitMs, cycleFault, prevCycle>>

\* The agent stream is consumed to its end; the loop sleeps for the cadence.
StreamDone ==
  /\ loopPc = "stream"
  /\ loopPc' = "wait"
  /\ waitMs' = CadenceDelay
  /\ cycleFault' = FALSE
  /\ UNCHANGED <<impl, mode, ledger, tx, funded, callVars, prevCycle>>

\* agent.stream or the iteration over it throws.
StreamThrow ==
  /\ loopPc = "stream"
  /\ CatchBlock
  /\ UNCHANGED <<impl, mode, ledger, tx, funded, callVars, prevCycle>>

\* The pending setTimeout fires; the loop goes round.
TimerFires ==
  /\ loopPc = "wait"
  /\ loopPc' = "cycle"
  /\ waitMs' = 0
  /\ cycleFault' = FALSE
  /\ prevCycle' = IF cycleFault THEN "fault" ELSE "normal"
  /\ UNCHANGED <<impl, mode, ledger, tx, funded, callVars>>

----------------------------------------------------------------------------
(* runChatMode and the agent's use of the tool *)

\* balanceMonitor._call(input) from the chat surface or from the agent.
ChatCall ==
  /\ mode = "chat"
  /\ callPc \in {"idle", "returned"}
  /\ \E in \in Inputs : Begin(in)
  /\ UNCHANGED <<impl, mode, ledger, tx, funded, loopVars>>

----------------------------------------------------------------------------

Next ==
  \/ GetBalanceOk
  \/ GetBalanceThrow
  \/ GetSourceBalanceOk
  \/ GetSourceBalanceThrow
  \/ TransferOk
  \/ TransferThrow
  \/ ConfirmOk
  \/ ConfirmThrow
  \/ RequeryOk
  \/ RequeryThrow
  \/ UnnamedGetBalanceOk
  \/ UnnamedTransferOk
  \/ UnnamedTransferThrow
  \/ Land
  \/ Drop
  \/ Spend
  \/ Fund
  \/ LoopCycle
  \/ LoopStatusReport
  \/ StreamDone
  \/ StreamThrow
  \/ TimerFires
  \/ ChatCall

Spec == Init /\ [][Next]_vars

\* The program as index.ts builds it: the BalanceMonitorTool imported from
\* ./tools/BalanceMonitorTool, constructed with its default policy.
InitTools == Init /\ impl = "tools"

NextTools ==
  \/ GetBalanceOk
  \/ GetBalanceThrow
  \/ GetSourceBalanceOk
  \/ GetSourceBalanceThrow
  \/ TransferOk
  \/ TransferThrow
  \/ ConfirmOk
  \/ ConfirmThrow
  \/ RequeryOk
  \/ RequeryThrow
  \/ Land
  \/ Drop
  \/ Spend
  \/ Fund
  \/ LoopCycle
  \/ LoopStatusReport
  \/ StreamDone
  \/ StreamThrow
  \/ TimerFires
  \/ ChatCall

SpecTools == InitTools /\ [][NextTools]_vars

----------------------------------------------------------------------------
(* The autonomous loop on a ledger that answers every request *)

\* The autonomous loop around the tools/ class, with the default policy or
\* with a topUpAmountSol smaller than the gap it has to close.
InitLive == InitOf({"tools", "toolsArgs"}, {"auto"})

\* The operator keeps the agent wallet funded: whenever it holds less than
\* topUpAmount + fee, the requested amount arrives.
LiveFund ==
  /\ ledger["agent"] < requiredAmount
  /\ ledger' = [ledger EXCEPT !["agent"] = @ + requiredAmount]
  /\ UNCHANGED <<impl, mode, tx, funded, callVars, loopVars>>

\* The funding-balance query answers, and the wallet is funded when it does.
LiveSolvencyCheck ==
  /\ ledger["agent"] >= requiredAmount
  /\ GetSourceBalanceOk

\* No ledger request is rejected, no transfer is dropped, and nothing but
\* the loop's own transfers moves the monitored account's balance.
NextLive ==
  \/ GetBalanceOk
  \/ LiveSolvencyCheck
  \/ TransferOk
  \/ ConfirmOk
  \/ RequeryOk
  \/ Land
  \/ LiveFund
  \/ LoopCycle
  \/ LoopStatusReport
  \/ StreamDone
  \/ StreamThrow
  \/ TimerFires

\* Every continuation that is ready runs (the event loop), every timer
\* fires, the agent stream ends one way or the other, the chain processes a
\* submitted transfer and the operator's funds arrive.
SpecLive ==
  /\ InitLive
  /\ [][NextLive]_vars
  /\ WF_vars(GetBalanceOk)
  /\ WF_vars(LiveSolvencyCheck)
  /\ WF_vars(TransferOk)
  /\ WF_vars(ConfirmOk)
  /\ WF_vars(RequeryOk)
  /\ WF_vars(Land)
  /\ WF_vars(LiveFund)
  /\ WF_vars(LoopCycle)
  /\ WF_vars(LoopStatusReport)
  /\ WF_vars(StreamDone \/ StreamThrow)
  /\ WF_vars(TimerFires)

----------------------------------------------------------------------------
(* Properties *)

\* Position of the first completed ledger operation of the current
\* invocation named op with the given outcome, 0 when there is none.
FirstOp(op, outcome) ==
  IF \E i \in 1..Len(ops) : ops[i].op = op /\ ops[i].outcome = outcome
  THEN CHOOSE i \in 1..Len(ops) :
         /\ ops[i].op = op /\ ops[i].outcome = outcome
         /\ \A j \in 1..(i - 1) : ~(ops[j].op = op /\ ops[j].outcome = outcome)
  ELSE 0

Submitted == FirstOp("transfer", "ok") > 0

ConfirmFailed ==
  \E i \in 1..Len(ops) : ops[i].op = "confirmTransaction" /\ ops[i].outcome # "ok"

ClassifiedKinds ==
  {"Healthy", "ToppedUp", "InsufficientFunds", "TransferFailed",
   "ConfirmationUnknown", "InvalidInput"}

\* C1: once the target's balance has been read as b >= minBalance, the
\* invocation has returned Healthy and that read is the only ledger operation
\* it performed (no funding-balance query, no transfer, no confirmation).
C1_HealthyIsNoOp ==
  (/\ Len(ops) >= 1
   /\ ops[1].op = "getBalance" /\ ops[1].outcome = "ok"
   /\ ops[1].value >= minBalance)
  => /\ callPc = "returned"
     /\ Kind(result) = "Healthy"
     /\ Len(ops) = 1
     /\ ops[1].account = targetWallet

C1_Witness ==
  /\ callPc = "returned"
  /\ Kind(result) = "Healthy"
  /\ Len(ops) = 1
  /\ ops[1].value = minBalance

\* C2: a funding balance read below topUpAmount + feeReserve ends the
\* invocation with InsufficientFunds and no transfer, and a transfer is only
\* ever submitted after a funding-balance read of at least that amount in
\* the same invocation.
C2_NoDoomedSubmission ==
  /\ (/\ Len(ops) >= 2
      /\ ops[2].op = "getBalance" /\ ops[2].account = "agent"
      /\ ops[2].outcome = "ok" /\ ops[2].value < requiredAmount)
     => /\ callPc = "returned"
        /\ Kind(result) = "InsufficientFunds"
        /\ Len(ops) = 2
  /\ (callPc = "transfer" \/ \E i \in 1..Len(ops) : ops[i].op = "transfer")
     => \E j \in 1..Len(ops) :
          /\ ops[j].op = "getBalance" /\ ops[j].account = "agent"
          /\ ops[j].outcome = "ok" /\ ops[j].value >= requiredAmount
          /\ \A i \in 1..j : ops[i].op # "transfer"

\* C3: ToppedUp is reported only when, in the same invocation, the transfer
\* was submitted and its confirmation then completed successfully.
C3_SuccessOnlyAfterConfirmation ==
  (callPc = "returned" /\ Kind(result) = "ToppedUp")
  => /\ Submitted
     /\ FirstOp("confirmTransaction", "ok") > FirstOp("transfer", "ok")

\* C4: an invocation whose confirmation errored or timed out returns
\* ConfirmationUnknown, never TransferFailed, InsufficientFunds or ToppedUp.
C4_ConfirmFailureIsUnknown ==
  (callPc = "returned" /\ Submitted /\ ConfirmFailed)
  => /\ Kind(result) = "ConfirmationUnknown"
     /\ Kind(result) \notin {"TransferFailed", "InsufficientFunds", "ToppedUp"}

\* C5 as claimed: after submission and confirmation succeeded, the new
\* balance in the ToppedUp status equals the value the re-query returned.
C5_NewBalanceEqualsRequery ==
  (/\ callPc = "returned" /\ Kind(result) = "ToppedUp"
   /\ FirstOp("confirmTransaction", "ok") > 0)
  => /\ ops[Len(ops)].op = "getBalance" /\ ops[Len(ops)].account = targetWallet
     /\ Len(ops) > FirstOp("confirmTransaction", "ok")
     /\ result.newBalance * (LAMPORTS_PER_SOL \div 10000) = ops[Len(ops)].value

\* C5 as amended: the new balance in the ToppedUp status is the value the
\* re-query issued after the confirmation returned, formatted with
\* toFixed(4), that is rounded to 0.0001 SOL.
C5_NewBalanceIsRoundedRequery ==
  (/\ callPc = "returned" /\ Kind(result) = "ToppedUp"
   /\ FirstOp("confirmTransaction", "ok") > 0)
  => /\ ops[Len(ops)].op = "getBalance" /\ ops[Len(ops)].account = targetWallet
     /\ ops[Len(ops)].outcome = "ok"
     /\ Len(ops) > FirstOp("confirmTransaction", "ok")
     /\ result.newBalance = ToFixed4(ops[Len(ops)].value)

\* a top-up whose re-query differs from old balance + topUpAmount
C5_Witness ==
  /\ callPc = "returned" /\ Kind(result) = "ToppedUp"
  /\ FirstOp("confirmTransaction", "ok") > 0
  /\ ops[Len(ops)].value # balance + topUpAmount
  /\ result.newBalance # ToFixed4(balance + topUpAmount)

\* C6: an input other than "" and "check" that the address parser rejects
\* yields InvalidInput, whatever the parser threw, with no ledger operation.
C6_UnparseableIsInvalidInput ==
  (/\ callPc = "returned"
   /\ input # <<>> /\ input # StrCheck
   /\ ~NewPublicKey(input).ok)
  => /\ Kind(result) = "InvalidInput"
     /\ ops = <<>>

\* C7: an exception escaping a cycle never ends the loop.  The step that
\* leaves the stream phase enters a wait; a wait entered through the catch
\* block lasts the recovery interval, which is shorter than the cadence; a
\* wait is only left for the top of the next cycle; and the next cycle
\* calls _call("check") afresh, with none of the previous invocation's
\* locals or operations.
C7_LoopSurvivesFault ==
  [][/\ loopPc' # "exited"
     /\ (loopPc = "stream" /\ loopPc' # "stream") => loopPc' = "wait"
     /\ cycleFault' => (loopPc' = "wait" /\ waitMs' = RecoveryMs /\ waitMs' < CadenceMs)
     /\ (loopPc = "wait" /\ loopPc' # "wait") => loopPc' = "cycle"
     /\ (loopPc = "cycle" /\ loopPc' # "cycle")
        => /\ loopPc' = "call"
           /\ callPc' = "getBalance"
           /\ input' = StrCheck
           /\ targetWallet' = "default"
           /\ ops' = <<>>
           /\ balance' = -1 /\ sourceBalance' = -1
           /\ result' = NoResult]_vars

\* the cycle after a faulted one is under way
C7_Witness ==
  /\ prevCycle = "fault"
  /\ loopPc = "call"
  /\ callPc = "getBalance"
  /\ ops = <<>>

\* C8: a wait entered at the normal end of a cycle whose status is one of
\* the classified outcomes lasts the configured cadence (interval * 1000 ms),
\* not the recovery interval.
C8_NormalCompletionWaitsCadence ==
  (loopPc = "wait" /\ ~cycleFault /\ Kind(result) \in ClassifiedKinds)
  => /\ waitMs = IntervalSeconds * 1000
     /\ waitMs # RecoveryMs

C8_Witness ==
  /\ loopPc = "wait" /\ ~cycleFault
  /\ Kind(result) = "InsufficientFunds"
  /\ waitMs = IntervalSeconds * 1000

\* A step of the program that puts the loop in its Cancelled state.
CancelStep == Next /\ loopPc' = "cancelled"

\* C9: the loop can be cancelled at the cadence boundary and only there, and
\* a cycle that has submitted a transfer ends with the transfer confirmed
\* (ToppedUp) or with ConfirmationUnknown.
C9_CancelAtBoundaryAfterResolution ==
  /\ loopPc = "wait" => ENABLED CancelStep
  /\ loopPc \notin {"wait", "cycle"} => ~ENABLED CancelStep
  /\ (mode = "auto" /\ callPc = "returned" /\ Submitted)
     => Kind(result) \in {"ToppedUp", "ConfirmationUnknown"}

\* C10: when the wait for the confirmation expires, the invocation returns
\* ConfirmationUnknown.
C10_ConfirmTimeoutYieldsUnknown ==
  (/\ callPc = "returned"
   /\ \E i \in 1..Len(ops) :
        ops[i].op = "confirmTransaction" /\ ops[i].outcome = "timeout")
  => Kind(result) = "ConfirmationUnknown"

----------------------------------------------------------------------------
(* C11 *)

\* The amount an InsufficientFunds status asks the operator for, in lamports:
\* the "I need some SOL" text prints requiredAmount.toFixed(6), the "Oops"
\* text prints topUpAmountSol + 0.000005, the "haven't arrived" text prints
\* no amount (-1).
AmountCarried(r) ==
  IF r.template = "NeedSol" THEN r.required * (LAMPORTS_PER_SOL \div 1000000)
  ELSE r.required

\* The funding balance the invocation read, or -1 when it read none.
FundingBalanceRead ==
  IF \E i \in 1..Len(ops) : ops[i].op = "getBalance" /\ ops[i].account = "agent"
                            /\ ops[i].outcome = "ok"
  THEN sourceBalance ELSE -1

\* C11: every InsufficientFunds status, whether it comes from the solvency
\* check or from a classified submission failure, carries the funding
\* account's address and the exact shortfall
\* (topUpAmount + feeReserve) - funding balance.
C11_InsufficientFundsCarriesShortfall ==
  (callPc = "returned" /\ Kind(result) = "InsufficientFunds") =>
     /\ result.address = "agent"
     /\ FundingBalanceRead >= 0
     /\ AmountCarried(result) = requiredAmount - FundingBalanceRead

----------------------------------------------------------------------------
(* C12 *)

\* The balance queries of the target issued to inspect it: those completed
\* before any transfer was submitted (the query after a confirmed transfer is
\* the re-verification).
InspectionQueries ==
  {i \in 1..Len(ops) :
     /\ ops[i].op = "getBalance"
     /\ ops[i].account = targetWallet
     /\ \A j \in 1..i : ops[j].op # "transfer"}

\* C12: for the input "check" and for the empty string the inspected and
\* topped-up account is the default account, new PublicKey is never applied
\* to the input, and exactly one balance query inspects the account (it is
\* outstanding while _call sits at its first await, completed afterwards).
C12_CheckAndEmptyUseDefault ==
  (callPc # "idle" /\ input \in {<<>>, StrCheck}) =>
     /\ targetWallet = "default"
     /\ parseAttempts = 0
     /\ \A i \in 1..Len(ops) : ops[i].op = "transfer" => ops[i].account = "default"
     /\ Cardinality(InspectionQueries) = IF callPc = "getBalance" THEN 0 ELSE 1

\* The empty string was given, the default account was found low and topped
\* up, and the invocation has returned.
C12_Witness ==
  /\ callPc = "returned"
  /\ input = <<>>
  /\ Kind(result) = "ToppedUp"
  /\ targetWallet = "default"
  /\ Cardinality(InspectionQueries) = 1

----------------------------------------------------------------------------
(* C13 *)

\* "transfer <amount>"
IsTransferCommand(in) ==
  /\ Len(in) > 9
  /\ SubSeq(in, 1, 9) = <<"t", "r", "a", "n", "s", "f", "e", "r", " ">>

\* C13: an invocation with an input of the form "transfer <amount>" submits
\* a transfer to the ledger.
C13_TransferCommandTransfers ==
  (callPc = "returned" /\ IsTransferCommand(input)) =>
     \E i \in 1..Len(ops) : ops[i].op = "transfer"

----------------------------------------------------------------------------
(* C14 *)

\* The steps of one top-up in the order of lines 47-70; the first completed
\* operation of an invocation is the inspection of the target.
TopUpSteps ==
  << [op |-> "getBalance", account |-> "agent", pc |-> "getSourceBalance"],
     [op |-> "transfer", account |-> targetWallet, pc |-> "transfer"],
     [op |-> "confirmTransaction", account |-> targetWallet, pc |-> "confirmTransaction"],
     [op |-> "getBalance", account |-> targetWallet, pc |-> "requery"] >>

----------------------------------------------------------------------------
(* C15 *)

\* Submission failures that signal a fee-payer shortfall: the runtime's
\* "insufficient lamports" log, the system program's error 0x1, and the
\* "Attempt to debit an account" simulation failure.
IndicatesShortfall(e) ==
  e.isError /\ e.message \in {MsgInsufficientLamports, MsgCustomError0x1,
                              MsgAttemptToDebit}

\* The statuses the catch at line 74 produces.
SubmissionClassified ==
  {"NotEnoughSol", "FundsNotArrived", "TransferFailedMsg", "TransferFailedBare"}

\* C15: a failed submission gives InsufficientFunds when the failure signals
\* a fee-payer shortfall and TransferFailed carrying the raw message
\* otherwise; and the statuses of this classification are returned only
\* when the step that failed is the submission, never when it is the
\* funding-balance query, the confirmation or the re-query.
C15_ClassifiedOnlyOnSubmissionFailure ==
  (callPc = "returned" /\ Len(ops) >= 1) =>
     LET last == ops[Len(ops)]
         submissionFailed == last.op = "transfer" /\ last.outcome # "ok"
     IN  /\ submissionFailed =>
               IF IndicatesShortfall(last.thrown)
               THEN Kind(result) = "InsufficientFunds"
               ELSE /\ Kind(result) = "TransferFailed"
                    /\ result.error = last.thrown.message
         /\ result.template \in SubmissionClassified => submissionFailed

----------------------------------------------------------------------------
(* C16 *)

\* A balance query of this loop cycle was rejected by the ledger client.
BalanceQueryFailed ==
  \E i \in 1..Len(ops) : ops[i].op = "getBalance" /\ ops[i].outcome = "error"

\* C16: in the autonomous loop a rejected balance query is not turned into
\* a returned status: the cycle ends in the loop's catch block, which waits
\* the recovery interval before the next cycle.
C16_BalanceQueryFaultEscapes ==
  (mode = "auto" /\ BalanceQueryFailed) =>
     /\ callPc # "returned"
     /\ result = NoResult
     /\ loopPc = "wait" => (cycleFault /\ waitMs = RecoveryMs)

----------------------------------------------------------------------------
(* C17 *)

\* _call is suspended at an await on a ledger operation.
LedgerOpOutstanding ==
  callPc \in {"getBalance", "getSourceBalance", "transfer",
              "confirmTransaction", "requery"}

\* C17: in the autonomous loop a ledger operation is outstanding only while
\* the loop itself is suspended in `await balanceMonitor._call("check")`;
\* while the loop reports, streams, sleeps or is about to start the next
\* cycle, the previous cycle has returned and nothing of it is pending, a
\* transfer confirmation included.
C17_CyclesNeverOverlap ==
  mode = "auto" =>
     /\ LedgerOpOutstanding => loopPc = "call"
     /\ loopPc \in {"stream", "wait"} => callPc = "returned"
     /\ loopPc = "cycle" => callPc \in {"idle", "returned"}

\* A later cycle is waiting for its transfer's confirmation.
C17_Witness ==
  /\ mode = "auto"
  /\ prevCycle # "none"
  /\ loopPc = "call"
  /\ callPc = "confirmTransaction"

----------------------------------------------------------------------------
(* C18 *)

\* The submissions of the current invocation, accepted or rejected.
Submissions == {i \in 1..Len(ops) : ops[i].op = "transfer"}

\* C18: an invocation submits at most one transfer, a rejected submission
\* included, and what it submits is topUpAmount to the account its input
\* resolved to; the transaction the chain then holds is that transfer.
C18_OneTransferOfTopUpAmount ==
  /\ Cardinality(Submissions) <= 1
  /\ \A i \in Submissions :
       /\ ops[i].value = topUpAmount
       /\ ops[i].account = targetWallet
       /\ ResolveTarget(input).ok
       /\ ResolveTarget(input).key = targetWallet
       /\ ops[i].outcome = "ok" =>
            (tx.status # "none" /\ tx.to = targetWallet /\ tx.amount = topUpAmount)

\* An address was given, and the invocation has submitted its one transfer
\* to that account.
C18_Witness ==
  /\ callPc = "returned"
  /\ input = StrWsolMint
  /\ \E i \in Submissions : ops[i].outcome = "ok" /\ ops[i].account = "other"

----------------------------------------------------------------------------
(* C19 *)

\* C19: the funding balance a ToppedUp status carries is the balance left
\* after the confirmed transfer and its fee were debited (as the ledger now
\* holds it, or as the solvency read less the debit), to the status's four
\* decimals.
C19_ToppedUpCarriesRemainingBalance ==
  (callPc = "returned" /\ Kind(result) = "ToppedUp") =>
     \/ result.sourceBalance = ToFixed4(ledger["agent"])
     \/ result.sourceBalance = ToFixed4(sourceBalance - topUpAmount - FeeLamports)

----------------------------------------------------------------------------
(* C20 *)

\* The monitored account is at or above the threshold, the invocation in
\* progress has submitted nothing, and what it returned, if it has
\* returned, is the plain balance status.
HealedAndQuiet ==
  /\ ledger["default"] >= minBalance
  /\ Submissions = {}
  /\ callPc = "returned" => Kind(result) = "Healthy"

\* C20: when every ledger operation succeeds, nothing else debits the
\* monitored account and the agent wallet is funded at each solvency check,
\* the loop brings the monitored balance to minBalance or more, with a
\* topUpAmount that closes the gap in one cycle or in several, and from then
\* on every cycle, and cycles keep coming, returns Healthy and submits no
\* transfer.
C20_SelfHealing ==
  /\ <>[]HealedAndQuiet
  /\ []<>(callPc = "returned" /\ Kind(result) = "Healthy")

\* The gap was wider than topUpAmount: two top-ups of 0.002 SOL later the
\* account is above the threshold and a cycle has returned Healthy.
C20_Witness ==
  /\ impl = "toolsArgs"
  /\ ledger["default"] = (MinBalanceTools \div 2 + 40000) + 2 * TopUpAmountArgs
  /\ ledger["default"] >= minBalance
  /\ callPc = "returned"
  /\ Kind(result) = "Healthy"
  /\ prevCycle # "none"

============================================================================
